---- MODULE Spec2Model ----
(***************************************************************************)
(* Task-management API (FastAPI + SQLAlchemy over SQLite): the request     *)
(* handlers of routers/user.py and routers/task.py, each run inside one    *)
(* database session, on the two tables users and tasks.                    *)
(*                                                                         *)
(* A handler is a sequence of awaited store operations (db.execute,        *)
(* db.commit, db.rollback); each is one step of the model.  Writes of a    *)
(* session stay in its transaction (pending) until db.commit applies them  *)
(* to the tables; db.rollback and the end of the session drop them.        *)
(* Text that the code transforms (firstname, slug) is a sequence of        *)
(* one-character strings; text that is only stored is a string.            *)
(***************************************************************************)
EXTENDS Integers, Sequences, FiniteSets, TLC

\* ---------------------------------------------------------------- bounds
MaxUserId == 2      \* create-user requests stop once the next user id exceeds it
MaxTaskId == 2      \* create-task requests stop once the next task id exceeds it
NumSessions == 1    \* request sessions that exist side by side
NumSuffixes == 2    \* distinct values uuid4().hex[:8] takes
MaxStartups == 3    \* times the application is started on the same store
MaxCounter == 2     \* the loop counter of the generation is counted up to it

Sessions == 1..NumSessions
UserIds == 1..MaxUserId
TaskIds == 1..MaxTaskId

\* ------------------------------------------------------- status constants
HTTP_200_OK == 200
HTTP_201_CREATED == 201
HTTP_404_NOT_FOUND == 404
HTTP_500 == 500

\* ------------------------------------------------------------- slugify
\* slugify(text) of python-slugify on the characters the model uses:
\* lowercase, every run of non-alphanumerics becomes one hyphen, and
\* hyphens at both ends are stripped.
Lower(c) ==
  CASE c = "A" -> "a"
    [] c = "B" -> "b"
    [] c = "T" -> "t"
    [] OTHER -> c

IsAlnum(c) ==
  c \in {"A", "B", "T", "a", "b", "c", "e", "i", "l", "o", "r", "s", "t", "u", "x"}

RECURSIVE Hyphenate(_)
Hyphenate(t) ==
  IF t = <<>> THEN <<>>
  ELSE LET c == IF IsAlnum(Head(t)) THEN Lower(Head(t)) ELSE "-"
           r == Hyphenate(Tail(t))
       IN IF c = "-" /\ (r = <<>> \/ Head(r) = "-") THEN r ELSE <<c>> \o r

slugify(t) ==
  LET h == Hyphenate(t)
  IN IF h # <<>> /\ Head(h) = "-" THEN Tail(h) ELSE h

\* ------------------------------------------------------- request bodies
\* schemas.user.CreateUser
CreateUserBodies ==
  { [username |-> <<"a", "l", "i", "c", "e">>, firstname |-> <<"A", "l">>, lastname |-> "Doe",
     age |-> 30, slug |-> <<"x">>],
    [username |-> <<"a", "l", "i", "c", "e">>, firstname |-> <<" ", "a", "l", " ">>, lastname |-> "Roe",
     age |-> 31, slug |-> <<"a", "l">>] }

\* schemas.user.UpdateUser
UpdateUserBodies ==
  { [firstname |-> <<"B", " ", " ", "o">>, lastname |-> "Poe", age |-> 32] }

\* schemas.task.CreateTask
CreateTaskBodies ==
  { [title |-> "T1", content |-> "C1", priority |-> 1, user_id |-> u] : u \in UserIds }

\* schemas.task.UpdateTask
UpdateTaskBodies ==
  { [title |-> "T2", content |-> "C2", priority |-> 2] }

NoBody == [none |-> TRUE]

\* ---------------------------------------------------------------- state
VARIABLES
  users,     \* table users: committed rows [id, username, firstname, lastname, age, slug]
  tasks,     \* table tasks: committed rows [id, title, content, priority, user_id]
  pc,        \* pc[s]: the store operation session s runs next
  req,       \* req[s]: the request of session s, [op, id, body]
  pending,   \* pending[s]: the uncommitted writes of session s, oldest first
  resp,      \* resp[s]: the response sent for the request
  pre,       \* pre[s]: the tables when the request arrived (history)
  fault,     \* fault[s]: the store operation that failed unexpectedly, or "none" (history)
  boot       \* the application startup: its position and its local variables

vars == <<users, tasks, pc, req, pending, resp, pre, fault, boot>>

NoReq == [op |-> "none", id |-> 0, body |-> NoBody]
NoResp == [status |-> 0, kind |-> "none", status_code |-> 0, text |-> "", rows |-> {}]
NoPre == [users |-> {}, tasks |-> {}]

\* raise HTTPException(status_code=..., detail=...)
HTTPException(code, detail) ==
  [type |-> "HTTPException", status_code |-> code, detail |-> detail]

\* any other exception, raised by the store
StoreError == [type |-> "Exception", status_code |-> 0, detail |-> ""]

\* The response FastAPI sends for a raised HTTPException.
ErrorResponse(e) ==
  [status |-> e.status_code, kind |-> "detail", status_code |-> 0,
   text |-> e.detail, rows |-> {}]

\* The response for a returned dict {'status_code': ..., 'transaction': ...}:
\* the route decorators set no status_code, so the response status is 200.
Confirmation(code, text) ==
  [status |-> HTTP_200_OK, kind |-> "confirmation", status_code |-> code,
   text |-> text, rows |-> {}]

\* The response for a returned list of rows, or a single row.
RowsResponse(kind, rows) ==
  [status |-> HTTP_200_OK, kind |-> kind, status_code |-> 0, text |-> "",
   rows |-> rows]

\* --------------------------------------------------------------- tables
Ids(table) == {r.id : r \in table}

SetMax(S) == CHOOSE m \in S : \A x \in S : x <= m

\* Column(Integer, primary_key=True) on SQLite: the row id of an insert is
\* one more than the largest id in the table, 1 in an empty table.
NextId(table) == IF table = {} THEN 1 ELSE SetMax(Ids(table)) + 1

\* insert(User).values(...)
InsertUser(db, vals) ==
  [db EXCEPT !.users = @ \cup
     {[id |-> NextId(db.users), username |-> vals.username,
       firstname |-> vals.firstname, lastname |-> vals.lastname,
       age |-> vals.age, slug |-> vals.slug]}]

\* The columns of the users table that carry a uniqueness constraint: none,
\* uniqueness is not enforced at the data layer.
UniqueUserColumns == {}

\* The insert of vals into users violates a uniqueness constraint.
IntegrityError(db, vals) ==
  \E u \in db.users : \E c \in UniqueUserColumns : u[c] = vals[c]

\* Variant: the update leaves the slug out of values(...).
UpdateUser_without_slug(db, id, vals) ==
  [db EXCEPT !.users =
     {IF u.id = id
        THEN [u EXCEPT !.firstname = vals.firstname, !.lastname = vals.lastname,
                       !.age = vals.age]
        ELSE u : u \in @}]

\* update(User).where(User.id == user_id).values(...)
UpdateUser(db, id, vals) ==
  [db EXCEPT !.users =
     {IF u.id = id
        THEN [u EXCEPT !.firstname = vals.firstname, !.lastname = vals.lastname,
                       !.age = vals.age, !.slug = vals.slug]
        ELSE u : u \in @}]

\* delete(User).where(User.id == user_id)
DeleteUser(db, id) == [db EXCEPT !.users = {u \in @ : u.id # id}]

\* Variant: the cascade filters on the task's own id, not on its user_id.
DeleteTasksOfUser_by_task_id(db, id) ==
  [db EXCEPT !.tasks = {t \in @ : t.id # id}]

\* delete(Task).where(Task.user_id == user_id)
DeleteTasksOfUser(db, id) == [db EXCEPT !.tasks = {t \in @ : t.user_id # id}]

\* Variant: the store enforces the foreign key, the insert of a task whose
\* user is missing stores nothing.
InsertTask_foreign_key(db, vals) ==
  IF vals.user_id \in Ids(db.users)
    THEN [db EXCEPT !.tasks = @ \cup
            {[id |-> NextId(db.tasks), title |-> vals.title, content |-> vals.content,
              priority |-> vals.priority, user_id |-> vals.user_id]}]
    ELSE db

\* insert(Task).values(...)
InsertTask(db, vals) ==
  [db EXCEPT !.tasks = @ \cup
     {[id |-> NextId(db.tasks), title |-> vals.title, content |-> vals.content,
       priority |-> vals.priority, user_id |-> vals.user_id]}]

\* Variant: the update leaves priority out of values(...).
UpdateTask_without_priority(db, id, vals) ==
  [db EXCEPT !.tasks =
     {IF t.id = id
        THEN [t EXCEPT !.title = vals.title, !.content = vals.content]
        ELSE t : t \in @}]

\* update(Task).where(Task.id == task_id).values(...)
UpdateTask(db, id, vals) ==
  [db EXCEPT !.tasks =
     {IF t.id = id
        THEN [t EXCEPT !.title = vals.title, !.content = vals.content,
                       !.priority = vals.priority]
        ELSE t : t \in @}]

\* Variant: the delete takes the other tasks of the task's user along.
DeleteTask_with_siblings(db, id) ==
  [db EXCEPT !.tasks =
     {t \in @ : \A d \in db.tasks : d.id = id => t.user_id # d.user_id}]

\* delete(Task).where(Task.id == task_id)
DeleteTask(db, id) == [db EXCEPT !.tasks = {t \in @ : t.id # id}]

\* One write statement applied to the tables db = [users, tasks].
ApplyOp(db, op) ==
  CASE op.kind = "insert_user" -> InsertUser(db, op.vals)
    [] op.kind = "update_user" -> UpdateUser(db, op.id, op.vals)
    [] op.kind = "delete_user" -> DeleteUser(db, op.id)
    [] op.kind = "delete_tasks_of_user" -> DeleteTasksOfUser(db, op.id)
    [] op.kind = "insert_task" -> InsertTask(db, op.vals)
    [] op.kind = "update_task" -> UpdateTask(db, op.id, op.vals)
    [] op.kind = "delete_task" -> DeleteTask(db, op.id)

RECURSIVE ApplyAll(_, _)
ApplyAll(db, ops) ==
  IF ops = <<>> THEN db ELSE ApplyAll(ApplyOp(db, Head(ops)), Tail(ops))

\* What a statement of session s sees: the tables with its own writes.
View(s) == ApplyAll([users |-> users, tasks |-> tasks], pending[s])

WriteOp(kind, id, vals) == [kind |-> kind, id |-> id, vals |-> vals]

\* ------------------------------------------------------ handler plumbing
At(s, op, step) == req[s].op = op /\ pc[s] = step

Goto(s, step) == pc' = [pc EXCEPT ![s] = step]

\* The handler ends and the response goes out.
Return(s, r) ==
  /\ pc' = [pc EXCEPT ![s] = "done"]
  /\ resp' = [resp EXCEPT ![s] = r]

\* await db.execute(<write statement>)
Execute(s, op) == pending' = [pending EXCEPT ![s] = Append(@, op)]

\* await db.commit()
Commit(s) ==
  /\ users' = View(s).users
  /\ tasks' = View(s).tasks
  /\ pending' = [pending EXCEPT ![s] = <<>>]

InternalServerError == HTTPException(HTTP_500, "Internal Server Error")

\* What the except clauses of a handler do with an exception: whether they
\* call db.rollback(), and the response that leaves the handler.
Caught(rollback, r) == [rollback |-> rollback, resp |-> r]

\* ------------------------------------------- except clauses, routers/user.py
\* except Exception catches HTTPException too: it is a subclass of Exception.
all_users_except(e) == Caught(FALSE, ErrorResponse(InternalServerError))

create_user_except(e) == Caught(TRUE, ErrorResponse(InternalServerError))

user_by_id_except(e) == Caught(FALSE, ErrorResponse(InternalServerError))

update_user_except(e) == Caught(TRUE, ErrorResponse(InternalServerError))

\* Variant: the except clause leaves the transaction open.
delete_user_except_without_rollback(e) ==
  Caught(FALSE, ErrorResponse(InternalServerError))

delete_user_except(e) == Caught(TRUE, ErrorResponse(InternalServerError))

tasks_by_user_id_except(e) == Caught(FALSE, ErrorResponse(InternalServerError))

\* ------------------------------------------- except clauses, routers/task.py
all_tasks_except(e) == Caught(FALSE, ErrorResponse(InternalServerError))

\* Variant: no "except HTTPException" clause, as in the other handlers.
create_task_except_without_reraise(e) ==
  Caught(TRUE, ErrorResponse(InternalServerError))

\* except HTTPException as he: raise he
\* except Exception as e: await db.rollback(); raise HTTPException(500, ...)
create_task_except(e) ==
  IF e.type = "HTTPException"
    THEN Caught(FALSE, ErrorResponse(e))
    ELSE Caught(TRUE, ErrorResponse(InternalServerError))

task_by_id_except(e) == Caught(FALSE, ErrorResponse(InternalServerError))

update_task_except(e) == Caught(TRUE, ErrorResponse(InternalServerError))

delete_task_except(e) == Caught(TRUE, ErrorResponse(InternalServerError))

ExceptClauses(op, e) ==
  CASE op = "all_users" -> all_users_except(e)
    [] op = "create_user" -> create_user_except(e)
    [] op = "user_by_id" -> user_by_id_except(e)
    [] op = "update_user" -> update_user_except(e)
    [] op = "delete_user" -> delete_user_except(e)
    [] op = "tasks_by_user_id" -> tasks_by_user_id_except(e)
    [] op = "all_tasks" -> all_tasks_except(e)
    [] op = "create_task" -> create_task_except(e)
    [] op = "task_by_id" -> task_by_id_except(e)
    [] op = "update_task" -> update_task_except(e)
    [] op = "delete_task" -> delete_task_except(e)

\* An exception leaves the try block of the handler of session s: its
\* except clauses run (rolling the transaction back where they say so) and
\* the response goes out.
Raise(s, e) ==
  /\ pending' = [pending EXCEPT ![s] =
                   IF ExceptClauses(req[s].op, e).rollback THEN <<>> ELSE @]
  /\ Return(s, ExceptClauses(req[s].op, e).resp)

\* The outcome of a try block that only reads: the exception it raises or
\* the response it returns.
Raised(e) == [raised |-> TRUE, exc |-> e, resp |-> NoResp]
Returned(r) == [raised |-> FALSE, exc |-> StoreError, resp |-> r]

Finish(s, outcome) ==
  IF outcome.raised
    THEN Raise(s, outcome.exc)
    ELSE Return(s, outcome.resp) /\ UNCHANGED pending

\* ------------------------------------------------------- routers/user.py
all_users_try(db) ==
  IF db.users = {}
    THEN Raised(HTTPException(HTTP_404_NOT_FOUND, "There are no users"))
    ELSE Returned(RowsResponse("rows", db.users))

all_users(s) ==
  /\ At(s, "all_users", "select")
  /\ Finish(s, all_users_try(View(s)))
  /\ UNCHANGED <<users, tasks, req, pre, fault, boot>>

\* Variant: the insert stores the slug of the request body.
create_user_insert_body_slug(s) ==
  /\ At(s, "create_user", "insert")
  /\ Execute(s, WriteOp("insert_user", 0,
        [username |-> req[s].body.username,
         firstname |-> req[s].body.firstname,
         lastname |-> req[s].body.lastname,
         age |-> req[s].body.age,
         slug |-> req[s].body.slug]))
  /\ Goto(s, "commit")
  /\ UNCHANGED <<users, tasks, req, resp, pre, fault, boot>>

\* insert(User).values(...): the values come from the body as they are, but
\* for the slug, and no unique-value generation is run on them.
create_user_values(body) ==
  [username |-> body.username,
   firstname |-> body.firstname,
   lastname |-> body.lastname,
   age |-> body.age,
   slug |-> slugify(body.firstname)]

\* Variant: the handler runs the unique-value generation on the username
\* and on the slug before it inserts them.
create_user_insert_generated(s) ==
  /\ At(s, "create_user", "insert")
  /\ \E hex \in {"1"} :
       LET vals == create_user_values(req[s].body)
           unique(field) ==
             IF \E u \in View(s).users : u[field] = vals[field]
               THEN vals[field] \o <<"-", hex>>
               ELSE vals[field]
       IN Execute(s, WriteOp("insert_user", 0,
            [vals EXCEPT !.username = unique("username"), !.slug = unique("slug")]))
  /\ Goto(s, "commit")
  /\ UNCHANGED <<users, tasks, req, resp, pre, fault, boot>>

create_user_insert(s) ==
  /\ At(s, "create_user", "insert")
  /\ IF IntegrityError(View(s), create_user_values(req[s].body))
       THEN Raise(s, StoreError)
       ELSE /\ Execute(s, WriteOp("insert_user", 0, create_user_values(req[s].body)))
            /\ Goto(s, "commit")
            /\ UNCHANGED resp
  /\ UNCHANGED <<users, tasks, req, pre, fault, boot>>

create_user_commit(s) ==
  /\ At(s, "create_user", "commit")
  /\ Commit(s)
  /\ Return(s, Confirmation(HTTP_201_CREATED, "Successful"))
  /\ UNCHANGED <<req, pre, fault, boot>>

user_by_id_try(db, user_id) ==
  LET found == {u \in db.users : u.id = user_id}
  IN IF found = {}
       THEN Raised(HTTPException(HTTP_404_NOT_FOUND, "User not found"))
       ELSE Returned(RowsResponse("row", found))

user_by_id(s) ==
  /\ At(s, "user_by_id", "select")
  /\ Finish(s, user_by_id_try(View(s), req[s].id))
  /\ UNCHANGED <<users, tasks, req, pre, fault, boot>>

update_user_select(s) ==
  /\ At(s, "update_user", "select")
  /\ IF req[s].id \notin Ids(View(s).users)
       THEN Raise(s, HTTPException(HTTP_404_NOT_FOUND, "User not found"))
       ELSE Goto(s, "update") /\ UNCHANGED <<pending, resp>>
  /\ UNCHANGED <<users, tasks, req, pre, fault, boot>>

update_user_update(s) ==
  /\ At(s, "update_user", "update")
  /\ Execute(s, WriteOp("update_user", req[s].id,
        [firstname |-> req[s].body.firstname,
         lastname |-> req[s].body.lastname,
         age |-> req[s].body.age,
         slug |-> slugify(req[s].body.firstname)]))
  /\ Goto(s, "commit")
  /\ UNCHANGED <<users, tasks, req, resp, pre, fault, boot>>

update_user_commit(s) ==
  /\ At(s, "update_user", "commit")
  /\ Commit(s)
  /\ Return(s, Confirmation(HTTP_200_OK, "User update is successful"))
  /\ UNCHANGED <<req, pre, fault, boot>>

delete_user_select(s) ==
  /\ At(s, "delete_user", "select")
  /\ IF req[s].id \notin Ids(View(s).users)
       THEN Raise(s, HTTPException(HTTP_404_NOT_FOUND, "User not found"))
       ELSE Goto(s, "delete_tasks") /\ UNCHANGED <<pending, resp>>
  /\ UNCHANGED <<users, tasks, req, pre, fault, boot>>

delete_user_delete_tasks(s) ==
  /\ At(s, "delete_user", "delete_tasks")
  /\ Execute(s, WriteOp("delete_tasks_of_user", req[s].id, NoBody))
  /\ Goto(s, "delete")
  /\ UNCHANGED <<users, tasks, req, resp, pre, fault, boot>>

delete_user_delete_user(s) ==
  /\ At(s, "delete_user", "delete")
  /\ Execute(s, WriteOp("delete_user", req[s].id, NoBody))
  /\ Goto(s, "commit")
  /\ UNCHANGED <<users, tasks, req, resp, pre, fault, boot>>

delete_user_commit(s) ==
  /\ At(s, "delete_user", "commit")
  /\ Commit(s)
  /\ Return(s, Confirmation(HTTP_200_OK,
                            "User and associated tasks delete is successful"))
  /\ UNCHANGED <<req, pre, fault, boot>>

tasks_by_user_id_select(s) ==
  /\ At(s, "tasks_by_user_id", "select")
  /\ IF req[s].id \notin Ids(View(s).users)
       THEN Raise(s, HTTPException(HTTP_404_NOT_FOUND, "User not found"))
       ELSE Goto(s, "select_tasks") /\ UNCHANGED <<pending, resp>>
  /\ UNCHANGED <<users, tasks, req, pre, fault, boot>>

\* Variant: the second select has no where clause.
tasks_by_user_id_select_tasks_unfiltered(s) ==
  /\ At(s, "tasks_by_user_id", "select_tasks")
  /\ Return(s, RowsResponse("rows", View(s).tasks))
  /\ UNCHANGED <<users, tasks, req, pending, pre, fault, boot>>

tasks_by_user_id_select_tasks(s) ==
  /\ At(s, "tasks_by_user_id", "select_tasks")
  /\ Return(s, RowsResponse("rows", {t \in View(s).tasks : t.user_id = req[s].id}))
  /\ UNCHANGED <<users, tasks, req, pending, pre, fault, boot>>

\* ------------------------------------------------------- routers/task.py
all_tasks_try(db) ==
  IF db.tasks = {}
    THEN Raised(HTTPException(HTTP_404_NOT_FOUND, "There are no tasks"))
    ELSE Returned(RowsResponse("rows", db.tasks))

all_tasks(s) ==
  /\ At(s, "all_tasks", "select")
  /\ Finish(s, all_tasks_try(View(s)))
  /\ UNCHANGED <<users, tasks, req, pre, fault, boot>>

\* Variant: the insert is not preceded by the check that the user exists.
create_task_select_unchecked(s) ==
  /\ At(s, "create_task", "select")
  /\ Goto(s, "insert")
  /\ UNCHANGED <<users, tasks, req, pending, resp, pre, fault, boot>>

create_task_select(s) ==
  /\ At(s, "create_task", "select")
  /\ IF req[s].body.user_id \notin Ids(View(s).users)
       THEN Raise(s, HTTPException(HTTP_404_NOT_FOUND, "User was not found"))
       ELSE Goto(s, "insert") /\ UNCHANGED <<pending, resp>>
  /\ UNCHANGED <<users, tasks, req, pre, fault, boot>>

create_task_insert(s) ==
  /\ At(s, "create_task", "insert")
  /\ Execute(s, WriteOp("insert_task", 0,
        [title |-> req[s].body.title,
         content |-> req[s].body.content,
         priority |-> req[s].body.priority,
         user_id |-> req[s].body.user_id]))
  /\ Goto(s, "commit")
  /\ UNCHANGED <<users, tasks, req, resp, pre, fault, boot>>

create_task_commit(s) ==
  /\ At(s, "create_task", "commit")
  /\ Commit(s)
  /\ Return(s, Confirmation(HTTP_201_CREATED, "Successful"))
  /\ UNCHANGED <<req, pre, fault, boot>>

task_by_id_try(db, task_id) ==
  LET found == {t \in db.tasks : t.id = task_id}
  IN IF found = {}
       THEN Raised(HTTPException(HTTP_404_NOT_FOUND, "Task not found"))
       ELSE Returned(RowsResponse("row", found))

task_by_id(s) ==
  /\ At(s, "task_by_id", "select")
  /\ Finish(s, task_by_id_try(View(s), req[s].id))
  /\ UNCHANGED <<users, tasks, req, pre, fault, boot>>

update_task_select(s) ==
  /\ At(s, "update_task", "select")
  /\ IF req[s].id \notin Ids(View(s).tasks)
       THEN Raise(s, HTTPException(HTTP_404_NOT_FOUND, "Task not found"))
       ELSE Goto(s, "update") /\ UNCHANGED <<pending, resp>>
  /\ UNCHANGED <<users, tasks, req, pre, fault, boot>>

\* Variant: the session is in autocommit mode, the update reaches the table
\* when it is executed.
update_task_update_autocommit(s) ==
  /\ At(s, "update_task", "update")
  /\ tasks' = UpdateTask([users |-> users, tasks |-> tasks], req[s].id,
                 [title |-> req[s].body.title,
                  content |-> req[s].body.content,
                  priority |-> req[s].body.priority]).tasks
  /\ Goto(s, "commit")
  /\ UNCHANGED <<users, req, pending, resp, pre, fault, boot>>

update_task_update(s) ==
  /\ At(s, "update_task", "update")
  /\ Execute(s, WriteOp("update_task", req[s].id,
        [title |-> req[s].body.title,
         content |-> req[s].body.content,
         priority |-> req[s].body.priority]))
  /\ Goto(s, "commit")
  /\ UNCHANGED <<users, tasks, req, resp, pre, fault, boot>>

\* Variant: the handler looks at the number of rows the update matched and
\* raises the 404 when it matched none.
update_task_commit_rowcount(s) ==
  /\ At(s, "update_task", "commit")
  /\ IF req[s].id \in Ids(tasks)
       THEN /\ Commit(s)
            /\ Return(s, Confirmation(HTTP_200_OK, "Task update is successful"))
       ELSE /\ Raise(s, HTTPException(HTTP_404_NOT_FOUND, "Task not found"))
            /\ UNCHANGED <<users, tasks>>
  /\ UNCHANGED <<req, pre, fault, boot>>

update_task_commit(s) ==
  /\ At(s, "update_task", "commit")
  /\ Commit(s)
  /\ Return(s, Confirmation(HTTP_200_OK, "Task update is successful"))
  /\ UNCHANGED <<req, pre, fault, boot>>

delete_task_select(s) ==
  /\ At(s, "delete_task", "select")
  /\ IF req[s].id \notin Ids(View(s).tasks)
       THEN Raise(s, HTTPException(HTTP_404_NOT_FOUND, "Task not found"))
       ELSE Goto(s, "delete") /\ UNCHANGED <<pending, resp>>
  /\ UNCHANGED <<users, tasks, req, pre, fault, boot>>

delete_task_delete(s) ==
  /\ At(s, "delete_task", "delete")
  /\ Execute(s, WriteOp("delete_task", req[s].id, NoBody))
  /\ Goto(s, "commit")
  /\ UNCHANGED <<users, tasks, req, resp, pre, fault, boot>>

delete_task_commit(s) ==
  /\ At(s, "delete_task", "commit")
  /\ Commit(s)
  /\ Return(s, Confirmation(HTTP_200_OK, "Task delete is successful"))
  /\ UNCHANGED <<req, pre, fault, boot>>

\* ------------------------------------------------- requests and sessions
Requests ==
       { [op |-> "all_users", id |-> 0, body |-> NoBody],
         [op |-> "all_tasks", id |-> 0, body |-> NoBody] }
  \cup { [op |-> "create_user", id |-> 0, body |-> b] : b \in CreateUserBodies }
  \cup { [op |-> o, id |-> i, body |-> NoBody] :
           o \in {"user_by_id", "delete_user", "tasks_by_user_id"}, i \in UserIds }
  \cup { [op |-> "update_user", id |-> i, body |-> b] :
           i \in UserIds, b \in UpdateUserBodies }
  \cup { [op |-> "create_task", id |-> 0, body |-> b] : b \in CreateTaskBodies }
  \cup { [op |-> o, id |-> i, body |-> NoBody] :
           o \in {"task_by_id", "delete_task"}, i \in TaskIds }
  \cup { [op |-> "update_task", id |-> i, body |-> b] :
           i \in TaskIds, b \in UpdateTaskBodies }

\* The first store operation of each handler.
FirstStep(op) ==
  IF op = "create_user" THEN "insert" ELSE "select"

Writers ==
  {"create_user", "update_user", "delete_user",
   "create_task", "update_task", "delete_task"}

\* The awaited store operations a handler's try block can be at.
StoreSteps ==
  {"select", "select_tasks", "insert", "update", "delete_tasks", "delete", "commit"}

\* get_async_db opens a session and the route runs its handler.  A session
\* is made anew for every request, so which free slot holds it is immaterial:
\* it is the first free one.  With serial, a request arrives only while no
\* other request is in progress.
RequestOf(s, serial, requests) ==
  /\ pc[s] = "idle"
  /\ \A t \in DOMAIN pc : t < s => pc[t] # "idle"
  /\ serial => \A t \in DOMAIN pc : pc[t] = "idle"
  /\ boot.pc = "done"
  /\ \E r \in requests :
       /\ r.op = "create_user" => NextId(users) <= MaxUserId
       /\ r.op = "create_task" => NextId(tasks) <= MaxTaskId
       /\ req' = [req EXCEPT ![s] = r]
       /\ pc' = [pc EXCEPT ![s] = FirstStep(r.op)]
  /\ pre' = [pre EXCEPT ![s] = [users |-> users, tasks |-> tasks]]
  /\ UNCHANGED <<users, tasks, pending, resp, fault, boot>>

Request(s, serial) == RequestOf(s, serial, Requests)

\* A store operation fails unexpectedly: it raises instead of taking effect.
Fault(s) ==
  /\ pc[s] \in StoreSteps
  /\ fault' = [fault EXCEPT ![s] = pc[s]]
  /\ Raise(s, StoreError)
  /\ UNCHANGED <<users, tasks, req, pre, boot>>

\* The session of a finished request is closed; what it did not commit is
\* discarded with it.
Close(s) ==
  /\ pc[s] = "done"
  /\ pc' = [pc EXCEPT ![s] = "idle"]
  /\ req' = [req EXCEPT ![s] = NoReq]
  /\ pending' = [pending EXCEPT ![s] = <<>>]
  /\ resp' = [resp EXCEPT ![s] = NoResp]
  /\ pre' = [pre EXCEPT ![s] = NoPre]
  /\ fault' = [fault EXCEPT ![s] = "none"]
  /\ UNCHANGED <<users, tasks, boot>>

\* ------------------------------------------------- startup, backend/db.py
\* base_username = "testuser", base_slug = "testuser"
TestUser == <<"t", "e", "s", "t", "u", "s", "e", "r">>

\* uuid4().hex[:8]: one of NumSuffixes values, each a single token.
Suffixes == {ToString(i) : i \in 1..NumSuffixes}

\* f"{base}-{uuid.uuid4().hex[:8]}" if counter > 1 else base
Candidate(base, counter, hex) ==
  IF counter > 1 THEN base \o <<"-", hex>> ELSE base

StartupStages ==
  <<"init_models", "check_db_connection", "test_async_session", "test_data_operations">>

NoBoot ==
  [pc |-> "off", stages |-> <<>>, counter |-> 1, username |-> <<>>, slug |-> <<>>,
   user_id |-> 0, error |-> "none", pre |-> NoPre, runs |-> 0, failures |-> 0,
   completed |-> 0]

\* The application has started and serves requests.
Serving == [NoBoot EXCEPT !.pc = "done", !.stages = StartupStages]

\* uvicorn.run(app): the process starts and the startup event fires.
StartApp ==
  /\ boot.pc \in {"off", "done", "failed"}
  /\ boot.runs < MaxStartups
  /\ \A s \in DOMAIN pc : pc[s] = "idle"
  /\ boot' = [boot EXCEPT !.pc = "init_models", !.stages = <<>>, !.counter = 1,
                          !.username = <<>>, !.slug = <<>>, !.user_id = 0,
                          !.error = "none",
                          !.pre = [users |-> users, tasks |-> tasks],
                          !.runs = @ + 1]
  /\ UNCHANGED <<users, tasks, pc, req, pending, resp, pre, fault>>

\* await db_manager.init_models(): creates the tables where they are missing.
init_models ==
  /\ boot.pc = "init_models"
  /\ boot' = [boot EXCEPT !.pc = "check_db_connection",
                          !.stages = Append(@, "init_models")]
  /\ UNCHANGED <<users, tasks, pc, req, pending, resp, pre, fault>>

\* await db_manager.check_db_connection(): SELECT 1 on a connection.
check_db_connection ==
  /\ boot.pc = "check_db_connection"
  /\ boot' = [boot EXCEPT !.pc = "test_async_session",
                          !.stages = Append(@, "check_db_connection")]
  /\ UNCHANGED <<users, tasks, pc, req, pending, resp, pre, fault>>

\* await db_manager.test_async_session(): SELECT 1 in a session.
test_async_session ==
  /\ boot.pc = "test_async_session"
  /\ boot' = [boot EXCEPT !.pc = "generate_unique_username",
                          !.stages = Append(@, "test_async_session")]
  /\ UNCHANGED <<users, tasks, pc, req, pending, resp, pre, fault>>

\* One pass of the while loop of a generation over the rows holding the
\* candidate: scalar_one_or_none() raises MultipleResultsFound on two rows,
\* a candidate no row holds is returned, and else the counter grows.
GenerationPass(b, rows, candidate, field, next) ==
  IF Cardinality(rows) > 1
    THEN [b EXCEPT !.pc = "failed", !.error = "MultipleResultsFound",
                   !.failures = @ + 1]
    ELSE IF rows = {}
      THEN [b EXCEPT !.pc = next, ![field] = candidate, !.counter = 1]
      ELSE [b EXCEPT !.counter = IF @ < MaxCounter THEN @ + 1 ELSE @]

\* Variant: the candidate is returned without the existence check.
generate_unique_username_unchecked ==
  /\ boot.pc = "generate_unique_username"
  /\ boot' = [boot EXCEPT !.pc = "generate_unique_slug", !.username = TestUser]
  /\ UNCHANGED <<users, tasks, pc, req, pending, resp, pre, fault>>

\* DatabaseManager.generate_unique_username(session, "testuser")
generate_unique_username ==
  /\ boot.pc = "generate_unique_username"
  /\ \E hex \in Suffixes :
       LET candidate == Candidate(TestUser, boot.counter, hex)
       IN boot' = GenerationPass(boot, {u \in users : u.username = candidate},
                                 candidate, "username", "generate_unique_slug")
  /\ UNCHANGED <<users, tasks, pc, req, pending, resp, pre, fault>>

\* DatabaseManager.generate_unique_slug(session, "testuser")
generate_unique_slug ==
  /\ boot.pc = "generate_unique_slug"
  /\ \E hex \in Suffixes :
       LET candidate == Candidate(TestUser, boot.counter, hex)
       IN boot' = GenerationPass(boot, {u \in users : u.slug = candidate},
                                 candidate, "slug", "add_user")
  /\ UNCHANGED <<users, tasks, pc, req, pending, resp, pre, fault>>

\* new_user = User(...); session.add(new_user); await session.commit()
test_data_operations_add_user ==
  /\ boot.pc = "add_user"
  /\ users' = InsertUser([users |-> users, tasks |-> tasks],
                 [username |-> boot.username, firstname |-> <<"T", "e", "s", "t">>,
                  lastname |-> "User", age |-> 30, slug |-> boot.slug]).users
  /\ boot' = [boot EXCEPT !.pc = "add_task", !.user_id = NextId(users)]
  /\ UNCHANGED <<tasks, pc, req, pending, resp, pre, fault>>

\* new_task = Task(..., user_id=new_user.id); session.add(new_task);
\* await session.commit()
test_data_operations_add_task ==
  /\ boot.pc = "add_task"
  /\ tasks' = InsertTask([users |-> users, tasks |-> tasks],
                 [title |-> "Test Task", content |-> "This is a test task",
                  priority |-> 1, user_id |-> boot.user_id]).tasks
  /\ boot' = [boot EXCEPT !.pc = "query"]
  /\ UNCHANGED <<users, pc, req, pending, resp, pre, fault>>

\* The user and the user's tasks are read back and logged; the startup ends.
test_data_operations_query ==
  /\ boot.pc = "query"
  /\ boot' = [boot EXCEPT !.pc = "done", !.completed = @ + 1,
                          !.stages = Append(@, "test_data_operations")]
  /\ UNCHANGED <<users, tasks, pc, req, pending, resp, pre, fault>>

\* The store operations of the startup.
StartupStoreSteps ==
  {"init_models", "check_db_connection", "test_async_session",
   "generate_unique_username", "generate_unique_slug", "add_user", "add_task",
   "query"}

\* A store operation of the startup fails: the exception is logged and
\* raised again, and the application does not start.
StartupFault ==
  /\ boot.pc \in StartupStoreSteps
  /\ boot' = [boot EXCEPT !.pc = "failed", !.error = "StoreError",
                          !.failures = @ + 1]
  /\ UNCHANGED <<users, tasks, pc, req, pending, resp, pre, fault>>

Init ==
  /\ users = {}
  /\ tasks = {}
  /\ boot = Serving
  /\ pc = [s \in Sessions |-> "idle"]
  /\ req = [s \in Sessions |-> NoReq]
  /\ pending = [s \in Sessions |-> <<>>]
  /\ resp = [s \in Sessions |-> NoResp]
  /\ pre = [s \in Sessions |-> NoPre]
  /\ fault = [s \in Sessions |-> "none"]

Handler(s) ==
  \/ all_users(s)
  \/ create_user_insert(s) \/ create_user_commit(s)
  \/ user_by_id(s)
  \/ update_user_select(s) \/ update_user_update(s) \/ update_user_commit(s)
  \/ delete_user_select(s) \/ delete_user_delete_tasks(s)
  \/ delete_user_delete_user(s) \/ delete_user_commit(s)
  \/ tasks_by_user_id_select(s) \/ tasks_by_user_id_select_tasks(s)
  \/ all_tasks(s)
  \/ create_task_select(s) \/ create_task_insert(s) \/ create_task_commit(s)
  \/ task_by_id(s)
  \/ update_task_select(s) \/ update_task_update(s) \/ update_task_commit(s)
  \/ delete_task_select(s) \/ delete_task_delete(s) \/ delete_task_commit(s)

\* Requests run one at a time.
Next == \E s \in Sessions : Request(s, TRUE) \/ Handler(s) \/ Fault(s) \/ Close(s)

Spec == Init /\ [][Next]_vars

\* ---------------------------------------------------- concurrent requests
\* Two requests served side by side, each in a session of its own.
ConcSessions == {1, 2}

\* The store the two requests meet: one user created by a create-user
\* request and one task created for it by a create-task request.
ConcStore ==
  ApplyAll(NoPre,
    <<WriteOp("insert_user", 0,
        [username |-> <<"a", "l", "i", "c", "e">>, firstname |-> <<"A", "l">>,
         lastname |-> "Doe", age |-> 30, slug |-> slugify(<<"A", "l">>)]),
      WriteOp("insert_task", 0,
        [title |-> "T1", content |-> "C1", priority |-> 1, user_id |-> 1])>>)

InitConc ==
  /\ users = ConcStore.users
  /\ tasks = ConcStore.tasks
  /\ boot = Serving
  /\ pc = [s \in ConcSessions |-> "idle"]
  /\ req = [s \in ConcSessions |-> NoReq]
  /\ pending = [s \in ConcSessions |-> <<>>]
  /\ resp = [s \in ConcSessions |-> NoResp]
  /\ pre = [s \in ConcSessions |-> NoPre]
  /\ fault = [s \in ConcSessions |-> "none"]

\* The store operations of the two requests interleave freely; no lock is
\* taken across requests.
NextConc == \E s \in ConcSessions : Request(s, FALSE) \/ Handler(s) \/ Fault(s)

SpecConc == InitConc /\ [][NextConc]_vars

\* ------------------------------------------------ startups on one store
\* schemas.user.CreateUser: bodies whose username, or whose firstname once
\* normalized, is the base value of the self-test.
TestUserBodies ==
  { [username |-> TestUser, firstname |-> <<"A", "l">>, lastname |-> "Doe",
     age |-> 30, slug |-> <<"x">>],
    [username |-> <<"a", "l", "i", "c", "e">>,
     firstname |-> <<"T", "e", "s", "t", "u", "s", "e", "r">>, lastname |-> "Roe",
     age |-> 31, slug |-> <<"x">>] }

StartupRequests ==
  { [op |-> "create_user", id |-> 0, body |-> b] :
      b \in TestUserBodies \cup CreateUserBodies }

\* The store file does not exist yet and the application is not running.
InitStartup ==
  /\ users = {}
  /\ tasks = {}
  /\ boot = NoBoot
  /\ pc = [s \in Sessions |-> "idle"]
  /\ req = [s \in Sessions |-> NoReq]
  /\ pending = [s \in Sessions |-> <<>>]
  /\ resp = [s \in Sessions |-> NoResp]
  /\ pre = [s \in Sessions |-> NoPre]
  /\ fault = [s \in Sessions |-> "none"]

Startup ==
  \/ StartApp
  \/ init_models \/ check_db_connection \/ test_async_session
  \/ generate_unique_username \/ generate_unique_slug
  \/ test_data_operations_add_user \/ test_data_operations_add_task
  \/ test_data_operations_query

\* The application is started again and again on the same store, and while
\* it runs it serves create-user requests.
NextStartup ==
  \/ Startup
  \/ StartupFault
  \/ \E s \in Sessions :
       \/ RequestOf(s, TRUE, StartupRequests)
       \/ create_user_insert(s) \/ create_user_commit(s)
       \/ Fault(s) \/ Close(s)

SpecStartup == InitStartup /\ [][NextStartup]_vars

\* ================================================================ claims
Done(s, op) == pc[s] = "done" /\ req[s].op = op

\* The request of s ended with the handler's own success response.
Succeeded(s) == resp[s].kind \in {"confirmation", "rows", "row"}

Db == [users |-> users, tasks |-> tasks]

UserOps == {"user_by_id", "update_user", "delete_user", "tasks_by_user_id"}
TaskOps == {"task_by_id", "update_task", "delete_task"}

\* C1: a create-task request whose user_id matches no user ends with the
\* 404 Not-Found response (unless a store operation itself failed), never
\* with a success, and the tasks table is what it was before the request.
C1_CreateTaskUnknownUser ==
  \A s \in Sessions :
    (Done(s, "create_task") /\ req[s].body.user_id \notin Ids(pre[s].users))
      => /\ tasks = pre[s].tasks
         /\ ~Succeeded(s)
         /\ fault[s] = "none" =>
              resp[s] = ErrorResponse(HTTPException(HTTP_404_NOT_FOUND,
                                                    "User was not found"))

C1_Witness ==
  \E s \in Sessions :
    /\ Done(s, "create_task") /\ fault[s] = "none"
    /\ req[s].body.user_id \notin Ids(pre[s].users)
    /\ pre[s].users # {} /\ pre[s].tasks # {}
    /\ resp[s].status = HTTP_404_NOT_FOUND

DeleteUserWrites(u) ==
  << WriteOp("delete_tasks_of_user", u, NoBody), WriteOp("delete_user", u, NoBody) >>

\* C2: a successful delete-user of user u leaves neither u nor any task of
\* u in the store and changes no other user and no task of another user;
\* the transaction it commits deletes the tasks first and the user second.
C2_DeleteUserCascade ==
  \A s \in Sessions :
    req[s].op = "delete_user" =>
      /\ pc[s] = "delete" => pending[s] = SubSeq(DeleteUserWrites(req[s].id), 1, 1)
      /\ pc[s] = "commit" => pending[s] = DeleteUserWrites(req[s].id)
      /\ (pc[s] = "done" /\ Succeeded(s)) =>
           /\ req[s].id \in Ids(pre[s].users)
           /\ req[s].id \notin Ids(users)
           /\ \A t \in tasks : t.user_id # req[s].id
           /\ users = {u \in pre[s].users : u.id # req[s].id}
           /\ tasks = {t \in pre[s].tasks : t.user_id # req[s].id}

C2_Witness ==
  \E s \in Sessions :
    /\ Done(s, "delete_user") /\ Succeeded(s)
    /\ \E t \in pre[s].tasks : t.user_id = req[s].id
    /\ users # {} /\ tasks # {}

\* C3: get user, update user, delete user, list tasks for user, get task,
\* update task and delete task answer an id that matches no record with
\* status 404 (no store operation having failed).
C3_NotFoundIs404 ==
  \A s \in Sessions :
    (/\ pc[s] = "done" /\ fault[s] = "none"
     /\ \/ req[s].op \in UserOps /\ req[s].id \notin Ids(pre[s].users)
        \/ req[s].op \in TaskOps /\ req[s].id \notin Ids(pre[s].tasks))
      => resp[s].status = HTTP_404_NOT_FOUND

\* C4: list users (list tasks) answers an empty table with status 404, and
\* a table with rows with a success carrying every row.
C4_EmptyListIs404 ==
  \A s \in Sessions :
    /\ (Done(s, "all_users") /\ fault[s] = "none") =>
         IF pre[s].users = {}
           THEN resp[s].status = HTTP_404_NOT_FOUND
           ELSE resp[s] = RowsResponse("rows", pre[s].users)
    /\ (Done(s, "all_tasks") /\ fault[s] = "none") =>
         IF pre[s].tasks = {}
           THEN resp[s].status = HTTP_404_NOT_FOUND
           ELSE resp[s] = RowsResponse("rows", pre[s].tasks)

\* C5: with requests run one at a time, every task's user_id is the id of a
\* user in the store.
C5_NoOrphanTasks == \A t \in tasks : t.user_id \in Ids(users)

C5_Witness ==
  \E s \in Sessions :
    /\ Done(s, "delete_user") /\ Succeeded(s)
    /\ Cardinality(pre[s].tasks) = MaxTaskId
    /\ \E t \in pre[s].tasks : t.user_id = req[s].id
    /\ \E t \in tasks : t.user_id # req[s].id

\* C6: when a store operation of a writing handler fails unexpectedly, the
\* transaction is rolled back, the response is the generic 500 and the
\* tables are what they were before the request; so after a failure of
\* delete-user past the deletion of the tasks, the user and all of the
\* user's tasks are still stored.
C6_FaultRollsBack ==
  \A s \in Sessions :
    (pc[s] = "done" /\ req[s].op \in Writers /\ fault[s] # "none")
      => /\ pending[s] = <<>>
         /\ resp[s] = ErrorResponse(InternalServerError)
         /\ resp[s].status = HTTP_500
         /\ users = pre[s].users
         /\ tasks = pre[s].tasks
         /\ (req[s].op = "delete_user" /\ fault[s] \in {"delete", "commit"}) =>
              /\ req[s].id \in Ids(users)
              /\ {t \in tasks : t.user_id = req[s].id}
                   = {t \in pre[s].tasks : t.user_id = req[s].id}

C6_Witness ==
  \E s \in Sessions :
    /\ Done(s, "delete_user") /\ fault[s] = "commit"
    /\ \E t \in tasks : t.user_id = req[s].id
    /\ resp[s].status = HTTP_500

\* C7: the HTTP status of the response to a successful create-user or
\* create-task is 201, and to any other successful request 200.
C7_SuccessStatus ==
  \A s \in Sessions :
    (pc[s] = "done" /\ Succeeded(s)) =>
      resp[s].status = IF req[s].op \in {"create_user", "create_task"}
                         THEN HTTP_201_CREATED ELSE HTTP_200_OK

\* C8: after a successful update-task of task t, get-task of t's id returns
\* t's id and user_id with the title, content and priority of the request
\* body; no other task and no user has changed.  Get-task returns the row
\* the table holds under the id.
C8_UpdateTaskThenGet ==
  \A s \in Sessions :
    /\ (Done(s, "update_task") /\ Succeeded(s)) =>
         \E old \in pre[s].tasks :
           /\ old.id = req[s].id
           /\ LET new == [id |-> old.id, user_id |-> old.user_id,
                          title |-> req[s].body.title,
                          content |-> req[s].body.content,
                          priority |-> req[s].body.priority]
              IN /\ task_by_id_try(Db, req[s].id)
                      = Returned(RowsResponse("row", {new}))
                 /\ tasks = (pre[s].tasks \ {old}) \cup {new}
                 /\ users = pre[s].users
    /\ (Done(s, "task_by_id") /\ Succeeded(s)) =>
         /\ resp[s].rows = {t \in tasks : t.id = req[s].id}
         /\ Cardinality(resp[s].rows) = 1

C8_Witness ==
  \E s \in Sessions :
    /\ Done(s, "update_task") /\ Succeeded(s)
    /\ \E old \in pre[s].tasks :
         old.id = req[s].id /\ old.title # req[s].body.title
    /\ Cardinality(tasks) = MaxTaskId

\* C9: a successful create-user adds exactly one user row, under an id no
\* user had, with the username, firstname, lastname and age of the body and
\* the slug slugify(firstname), whatever slug the body carries; get-user of
\* that id returns the row.
C9_CreateUserThenGet ==
  \A s \in Sessions :
    (Done(s, "create_user") /\ Succeeded(s)) =>
      \E new \in users :
        /\ new.id \notin Ids(pre[s].users)
        /\ users = pre[s].users \cup {new}
        /\ Cardinality(users) = Cardinality(pre[s].users) + 1
        /\ new.username = req[s].body.username
        /\ new.firstname = req[s].body.firstname
        /\ new.lastname = req[s].body.lastname
        /\ new.age = req[s].body.age
        /\ new.slug = slugify(req[s].body.firstname)
        /\ new.slug = <<"a", "l">>
        /\ user_by_id_try(Db, new.id) = Returned(RowsResponse("row", {new}))
        /\ tasks = pre[s].tasks

C9_Witness ==
  \E s \in Sessions :
    /\ Done(s, "create_user") /\ Succeeded(s)
    /\ pre[s].users # {}
    /\ req[s].body.slug # slugify(req[s].body.firstname)
    /\ req[s].body.firstname # slugify(req[s].body.firstname)

\* C10: list-tasks-for-user of an existing user u answers with a success
\* holding exactly the tasks whose user_id is u's id, an empty set when u
\* has none; the list-all endpoints answer an empty table with no success.
C10_TasksByUser ==
  \A s \in Sessions :
    /\ (Done(s, "tasks_by_user_id") /\ fault[s] = "none"
          /\ req[s].id \in Ids(pre[s].users)) =>
         /\ resp[s] = RowsResponse("rows",
                         {t \in pre[s].tasks : t.user_id = req[s].id})
         /\ resp[s].status = HTTP_200_OK
    /\ (Done(s, "all_tasks") /\ pre[s].tasks = {}) => ~Succeeded(s)
    /\ (Done(s, "all_users") /\ pre[s].users = {}) => ~Succeeded(s)

C10_WitnessOwned ==
  \E s \in Sessions :
    /\ Done(s, "tasks_by_user_id") /\ fault[s] = "none"
    /\ req[s].id \in Ids(pre[s].users)
    /\ resp[s].rows # {}
    /\ \E t \in pre[s].tasks : t.user_id # req[s].id

C10_Witness ==
  \E s \in Sessions :
    /\ Done(s, "tasks_by_user_id") /\ fault[s] = "none"
    /\ req[s].id \in Ids(pre[s].users)
    /\ resp[s].rows = {} /\ resp[s].status = HTTP_200_OK
    /\ pre[s].tasks # {}

\* C11: with two requests interleaved at single store operations, the commit
\* of a create-task whose existence check found user u, taken after a
\* concurrent delete-user of u has committed, succeeds and leaves a task that
\* references the user that no longer exists.
C11_CreateTaskRacesDeleteUser ==
  [][\A s \in DOMAIN pc :
       (create_task_commit(s) /\ req[s].body.user_id \notin Ids(users))
         => /\ \E t \in tasks' : /\ t \notin tasks
                                 /\ t.user_id = req[s].body.user_id
                                 /\ t.user_id \notin Ids(users')
            /\ resp'[s] = Confirmation(HTTP_201_CREATED, "Successful")]_vars

C11_Witness ==
  \E s, d \in DOMAIN pc :
    /\ Done(s, "create_task") /\ Succeeded(s)
    /\ Done(d, "delete_user") /\ Succeeded(d)
    /\ req[d].id = req[s].body.user_id
    /\ req[d].id \in Ids(pre[s].users) \cap Ids(pre[d].users)
    /\ \E t \in tasks : t.user_id = req[d].id /\ t.user_id \notin Ids(users)
    /\ ~C5_NoOrphanTasks

\* C12: with an update and a delete of the same record interleaved at single
\* store operations, the commit of an update-task (update-user) taken after
\* the concurrent delete has committed still answers with the 'update is
\* successful' confirmation, and no record with that id exists afterwards.
C12_UpdateRacesDelete ==
  [][\A s \in DOMAIN pc :
       /\ (update_task_commit(s) /\ req[s].id \notin Ids(tasks))
            => /\ resp'[s] = Confirmation(HTTP_200_OK, "Task update is successful")
               /\ req[s].id \notin Ids(tasks')
       /\ (update_user_commit(s) /\ req[s].id \notin Ids(users))
            => /\ resp'[s] = Confirmation(HTTP_200_OK, "User update is successful")
               /\ req[s].id \notin Ids(users')]_vars

C12_Witness ==
  \E s, d \in DOMAIN pc :
    /\ Done(s, "update_task") /\ resp[s].text = "Task update is successful"
    /\ Done(d, "delete_task") /\ Succeeded(d)
    /\ req[d].id = req[s].id
    /\ req[s].id \in Ids(pre[s].tasks) \cap Ids(pre[d].tasks)
    /\ req[s].id \notin Ids(tasks)
    /\ \A t \in pre[d].tasks : t.priority # req[s].body.priority

\* C13: a generation that has returned (no other session changing the store
\* meanwhile) holds a value no stored user has in that field: the base value
\* when the base is free, and else the base with a suffix appended.
Generated(field) ==
  LET taken == {u[field] : u \in users}
  IN /\ boot[field] \notin taken
     /\ IF TestUser \in taken
          THEN \E hex \in Suffixes : boot[field] = TestUser \o <<"-", hex>>
          ELSE boot[field] = TestUser

C13_GeneratedValueIsFree ==
  /\ boot.pc \in {"generate_unique_slug", "add_user"} => Generated("username")
  /\ boot.pc = "add_user" => Generated("slug")

\* Both generations have returned a suffixed value after a pass that found
\* its candidate taken.
C13_Witness ==
  /\ boot.pc = "add_user"
  /\ boot.runs = MaxStartups
  /\ Len(boot.username) > Len(TestUser) /\ Len(boot.slug) > Len(TestUser)
  /\ \E u \in users : Len(u.username) > Len(TestUser) /\ u.username # boot.username
  /\ \E u \in users : Len(u.slug) > Len(TestUser) /\ u.slug # boot.slug

\* C14: create-user never runs the unique-value generation: unless a store
\* operation itself failed it succeeds, and it stores exactly one new record
\* under a new id with the body's username and the normalized firstname as
\* slug, also when a stored user already has that username or that slug; the
\* store then holds two records with equal username (slug), different ids.
C14_CreateUserStoresDuplicates ==
  \A s \in Sessions :
    (Done(s, "create_user") /\ fault[s] = "none")
      => /\ Succeeded(s)
         /\ \E new \in users :
              /\ users = pre[s].users \cup {new}
              /\ new.id \notin Ids(pre[s].users)
              /\ new.username = req[s].body.username
              /\ new.slug = slugify(req[s].body.firstname)
              /\ \A old \in pre[s].users :
                   /\ old.username = new.username
                        => \E u, v \in users : u.id # v.id /\ u.username = v.username
                   /\ old.slug = new.slug
                        => \E u, v \in users : u.id # v.id /\ u.slug = v.slug

\* The second of two create-user requests with equal usernames and with
\* different firstnames of the same normal form has succeeded.
C14_Witness ==
  \E s \in Sessions :
    /\ Done(s, "create_user") /\ Succeeded(s)
    /\ \E u, v \in users :
         /\ u.id # v.id /\ u \in pre[s].users /\ v \notin pre[s].users
         /\ u.username = v.username
         /\ u.slug = v.slug /\ u.firstname # v.firstname

\* C15: a successful update-user on user u sets u's firstname, lastname and
\* age to the body's values and u's slug to the normalized new firstname,
\* and leaves u's id and username, every other user and every task as they
\* were.
C15_UpdateUserFrame ==
  \A s \in Sessions :
    (Done(s, "update_user") /\ Succeeded(s))
      => /\ \E old \in pre[s].users :
              /\ old.id = req[s].id
              /\ users = (pre[s].users \ {old}) \cup
                   {[id |-> old.id, username |-> old.username,
                     firstname |-> req[s].body.firstname,
                     lastname |-> req[s].body.lastname,
                     age |-> req[s].body.age,
                     slug |-> slugify(req[s].body.firstname)]}
         /\ tasks = pre[s].tasks

\* The updated user owns a task and is not the only user, and the new slug
\* is neither the old one nor the new firstname as it was sent.
C15_Witness ==
  \E s \in Sessions :
    /\ Done(s, "update_user") /\ Succeeded(s)
    /\ Cardinality(users) = MaxUserId
    /\ \E t \in tasks : t.user_id = req[s].id
    /\ \E u \in users, old \in pre[s].users :
         /\ u.id = req[s].id /\ old.id = u.id
         /\ u.slug = <<"b", "-", "o">>
         /\ u.slug # old.slug /\ u.slug # u.firstname
         /\ u.username = old.username

\* C16: the unique-value generation loop terminates by returning a free
\* candidate; it has no iteration cap and never ends with a failure.  The
\* formula is the safety part: no generation ends with an exception of its
\* own.
C16_GenerationNeverFails == boot.error # "MultipleResultsFound"

\* C17: a successful delete-task on task t removes exactly t: a lookup of
\* t's id then finds nothing, and the users and every other task are as they
\* were; and no update or delete request on the id of an absent record
\* brings a record of that id back.
C17_DeleteTaskFrame ==
  \A s \in Sessions :
    /\ (Done(s, "delete_task") /\ Succeeded(s))
         => /\ \E t \in pre[s].tasks :
                 t.id = req[s].id /\ tasks = pre[s].tasks \ {t}
            /\ users = pre[s].users
            /\ task_by_id_try(Db, req[s].id).raised
    /\ (pc[s] = "done" /\ req[s].op \in {"update_task", "delete_task"}
          /\ req[s].id \notin Ids(pre[s].tasks))
         => req[s].id \notin Ids(tasks)
    /\ (pc[s] = "done" /\ req[s].op \in {"update_user", "delete_user"}
          /\ req[s].id \notin Ids(pre[s].users))
         => req[s].id \notin Ids(users)

\* The deleted task was one of two tasks of the same user.
C17_Witness ==
  \E s \in Sessions :
    /\ Done(s, "delete_task") /\ Succeeded(s)
    /\ \E t, o \in pre[s].tasks :
         /\ t.id = req[s].id /\ o.id # t.id /\ o.user_id = t.user_id
         /\ o \in tasks /\ t \notin tasks
    /\ \E u \in users : \A t \in pre[s].tasks : t.user_id = u.id

\* An update request on the id of a task deleted earlier has ended (task 2
\* got its id while task 1 was stored).
C17_WitnessLater ==
  \E s \in Sessions :
    /\ Done(s, "update_task")
    /\ req[s].id = 1 /\ 1 \notin Ids(pre[s].tasks) /\ 2 \in Ids(pre[s].tasks)

Reads == {"all_users", "user_by_id", "tasks_by_user_id", "all_tasks", "task_by_id"}

\* C18: a request that ends without a success confirmation (target or owning
\* user absent, empty list, internal fault), and every read request, leaves
\* the users and tasks tables exactly as they were before the request.
C18_NoSuccessNoChange ==
  \A s \in Sessions :
    (pc[s] = "done" /\ (~Succeeded(s) \/ req[s].op \in Reads))
      => users = pre[s].users /\ tasks = pre[s].tasks

\* An update-task on a stored task has failed at its commit, after its
\* update statement was executed.
C18_Witness ==
  \E s \in Sessions :
    /\ Done(s, "update_task") /\ ~Succeeded(s)
    /\ fault[s] = "commit"
    /\ req[s].id \in Ids(tasks)
    /\ resp[s].status = HTTP_500

\* A writer has ended without success because its target is absent.
C18_WitnessAbsent ==
  \E s \in Sessions :
    /\ Done(s, "delete_user") /\ ~Succeeded(s) /\ fault[s] = "none"
    /\ req[s].id \notin Ids(pre[s].users)
    /\ users # {} /\ tasks # {}

\* The records the self-test stores.
TestUsers == {u \in users : u.firstname = <<"T", "e", "s", "t">> /\ u.lastname = "User"}
TestTasks == {t \in tasks : t.title = "Test Task"}

\* What holds of the startups that get through: the stages run in the order
\* of startup_event, the self-test commits one new user whose username and
\* slug no user stored before has, then one new task of that user, and as
\* long as no startup has failed the store holds one such user and one such
\* task for each startup.
StartupsThatComplete ==
  /\ \E n \in 0..Len(StartupStages) : boot.stages = SubSeq(StartupStages, 1, n)
  /\ boot.pc \in {"add_task", "query"}
       => \E new \in users :
            /\ new.id = boot.user_id
            /\ users = boot.pre.users \cup {new}
            /\ \A old \in boot.pre.users :
                 old.id # new.id /\ old.username # new.username /\ old.slug # new.slug
  /\ boot.pc = "add_task" => tasks = boot.pre.tasks
  /\ boot.pc = "query"
       => \E new \in tasks :
            /\ new.user_id = boot.user_id
            /\ new.id \notin Ids(boot.pre.tasks)
            /\ tasks = boot.pre.tasks \cup {new}
  /\ (boot.pc = "done" /\ boot.runs > 0)
       => /\ boot.stages = StartupStages
          /\ users # {} /\ tasks # {}
  /\ (boot.pc \in {"off", "done"} /\ boot.failures = 0)
       => /\ Cardinality(TestUsers) = boot.runs
          /\ Cardinality(TestTasks) = boot.runs

\* C19: every startup runs schema initialisation, the connection check, the
\* session check and the data self-test in this order, and the self-test
\* commits exactly one new user, whose username and slug no stored user has,
\* and then exactly one new task of that user; n startups on the same store
\* add n users and n tasks.  Every startup: none ends unless a store
\* operation failed under it.
C19_EveryStartupAddsUserAndTask ==
  /\ StartupsThatComplete
  /\ boot.pc = "failed" => boot.error = "StoreError"

====
